---- MODULE Spec2Model ----
(***************************************************************************)
(* Verification model of the vancomycin PK engine (vanco_pk.py, dosing.py, *)
(* creatinine.py).                                                         *)
(*                                                                         *)
(* Numbers.  The program computes in IEEE doubles; the model computes in   *)
(* fixed point, every quantity an integer number of the unit below, every  *)
(* division rounded down:                                                  *)
(*   time                 minutes (the grid step of run is 5 minutes)      *)
(*   elimination rate     1/KeScale   per hour                             *)
(*   ke multiplier        1/MultScale                                      *)
(*   clearance, kGFR      1/ClScale   mL/min                               *)
(*   creatinine           1/CrScale   umol/L                               *)
(*   volume               1/VdScale   L                                    *)
(*   weight               1/WtScale   kg                                   *)
(*   concentration        1/CScale    mg/L                                 *)
(* A float NaN is the value NaN, which no operation below produces from    *)
(* numbers and every arithmetic operation propagates.                      *)
(***************************************************************************)
EXTENDS Integers, Sequences, FiniteSets, TLC

VARIABLES
    pk,       \* the VancoPK object: [ke, vd, ke_multiplier, multiplier_sd]
    call,     \* the arguments of the run call in progress
    run,      \* the locals of VancoPK.run: its position and loop state
    solo,     \* run's locals for each dose of the list simulated alone
    dosing,   \* the dose-schedule call made: [op, args, ret]
    crq,      \* the creatinine function built and the query made of it
    fcall,    \* the call of another function of vanco_pk.py: [op, pc, args, ret]
    runs      \* the run calls a caller made of the object, with what each returned

vars == <<pk, call, run, solo, dosing, crq, fcall, runs>>

KeScale == 1000 * 1000
MultScale == 11 * 100
ClScale == 10 * 100
CrScale == 10 * 100
VdScale == 10 * 100
WtScale == 10 * 100
CScale == 100 * 100
FracScale == 1000 * 1000
MinPerHour == 6 * 10

NaN == 0 - 2000000000
None == 0 - 2000000001

IsNaN(x) == x = NaN

(***************************************************************************)
(* Arithmetic helpers.                                                     *)
(***************************************************************************)
Abs(x) == IF x < 0 THEN 0 - x ELSE x

\* <<q, r>> with a * b = q * c + r and 0 <= r < c, for a, b >= 0 and c > 0,
\* computed by halving b so that no intermediate product leaves 32 bits.
\* One doubling: from h = <<q, r>> for a * (b \div 2) to <<q, r>> for a * b.
MulDivDouble(h, a, b, c) ==
    LET odd == b % 2 = 1
        r2  == 2 * h[2] + (IF odd THEN a % c ELSE 0)
        q2  == 2 * h[1] + (IF odd THEN a \div c ELSE 0)
    IN  <<q2 + (r2 \div c), r2 % c>>

RECURSIVE MulDivQR(_, _, _)
MulDivQR(a, b, c) ==
    IF b = 0 THEN <<0, 0>>
    ELSE CHOOSE qr \in { MulDivDouble(h, a, b, c) :
                           h \in { MulDivQR(a, half, c) : half \in {b \div 2} } } : TRUE

\* floor(x * y / c) for integers x, y of either sign and c > 0.
MulDivSigned(x, y, c) ==
    LET qr  == MulDivQR(Abs(x), Abs(y), c)
        neg == (x < 0) # (y < 0)
    IN  IF ~neg THEN qr[1]
        ELSE IF qr[2] = 0 THEN 0 - qr[1] ELSE 0 - qr[1] - 1

\* floor(a * b / c), the operands evaluated once.
MulDiv(a, b, c) ==
    CHOOSE q \in { MulDivSigned(x[1], x[2], x[3]) : x \in {<<a, b, c>>} } : TRUE

\* Float product x * y of two fixed-point numbers, y in units of 1/scale.
FMul(x, y, scale) == IF IsNaN(x) \/ IsNaN(y) THEN NaN ELSE MulDiv(x, y, scale)

\* Python's builtin min(a, b) and max(a, b): the first argument is kept unless
\* the second compares strictly below (above) it; every comparison with NaN
\* is false.
PyLess(x, y) == ~IsNaN(x) /\ ~IsNaN(y) /\ x < y

PyMin(a, b) == IF PyLess(b, a) THEN b ELSE a

PyMax(a, b) == IF PyLess(a, b) THEN b ELSE a


(***************************************************************************)
(* creatinine.py                                                           *)
(***************************************************************************)
Male == "Male"
Female == "Female"

\* Ideal body weight, then the weight used for volumes (adjusted body weight
\* above 1.25 x IBW), in 1/WtScale kg.  weight in kg, height in cm.
IdealBodyWeight(sex, height) ==
    IF sex = Male THEN 50 * WtScale + 900 * (height - 152)
    ELSE (455 * WtScale) \div 10 + 900 * (height - 152)

WeightForVd(sex, weight, height) ==
    LET ibw == IdealBodyWeight(sex, height)
        w   == weight * WtScale
    IN  IF 100 * w > 125 * ibw THEN ibw + (4 * (w - ibw)) \div 10 ELSE w

\* k_sex * 100
KSex(sex) == IF sex = Female THEN 85 ELSE 100

\* baseline_cl = ((140 - age) * 88.4) / cr1 * k_sex * 0.9, in 1/ClScale mL/min;
\* cr1 in umol/L.
BaselineCl(cr1, age, sex) == MulDiv((140 - age) * 884 * KSex(sex) * 9, 1, 10 * cr1)

\* calculate_kgfr(cr1, cr2, delta_t_hours, weight, height, age, sex), with the
\* time difference in minutes; the result in 1/ClScale mL/min.
KgfrFloor == ClScale \div 10

\* calculate_kgfr with the sign of delta_cr reversed.
calculate_kgfr_ReversedDelta(cr1, cr2, delta_t, weight, height, age, sex) ==
    LET baseline_cl     == BaselineCl(cr1, age, sex)
        v_dist          == (6 * WeightForVd(sex, weight, height)) \div 10
        production_rate == MulDiv(baseline_cl * cr1, 6, 100)
        delta_cr        == cr1 - cr2
        frac            == MulDiv(MulDiv(v_dist * delta_cr, MinPerHour, delta_t),
                                  FracScale, production_rate)
        kgfr            == MulDiv(baseline_cl, FracScale - frac, FracScale)
    IN  IF delta_t <= 0 \/ production_rate <= 0 THEN baseline_cl
        ELSE IF kgfr < KgfrFloor THEN KgfrFloor
        ELSE kgfr

calculate_kgfr(cr1, cr2, delta_t, weight, height, age, sex) ==
    LET baseline_cl     == BaselineCl(cr1, age, sex)
        v_dist          == (6 * WeightForVd(sex, weight, height)) \div 10
        production_rate == MulDiv(baseline_cl * cr1, 6, 100)
        delta_cr        == cr2 - cr1
        frac            == MulDiv(MulDiv(v_dist * delta_cr, MinPerHour, delta_t),
                                  FracScale, production_rate)
        kgfr            == MulDiv(baseline_cl, FracScale - frac, FracScale)
    IN  IF delta_t <= 0 \/ production_rate <= 0 THEN baseline_cl
        ELSE IF kgfr < KgfrFloor THEN KgfrFloor
        ELSE kgfr

\* sorted(list(set(cr_data)), key=lambda x: x[0]) for a list of <<time, value>>
\* pairs whose distinct pairs have distinct times.
Range(seq) == {seq[k] : k \in 1..Len(seq)}

RECURSIVE SortByTime(_)
SortByTime(S) ==
    IF S = {} THEN <<>>
    ELSE LET first == CHOOSE p \in S : \A q \in S : p[1] <= q[1]
         IN  <<first>> \o SortByTime(S \ {first})

\* scipy's interp1d(t, values, kind='linear', fill_value="extrapolate") at x:
\* the segment is the one searchsorted finds, clipped to the first and the
\* last, and the line through its two points is evaluated at x, wherever x
\* lies.  times and values are sequences of the same length >= 2.
InterpSegment(times, x) ==
    LET n   == Len(times)
        geq == {k \in 1..n : times[k] >= x}
        pos == IF geq = {} THEN n + 1 ELSE CHOOSE k \in geq : \A j \in geq : k <= j
    IN  IF pos < 2 THEN 2 ELSE IF pos > n THEN n ELSE pos

\* interp_func holding the first and the last value outside the series.
interp_func_Hold(times, values, x) ==
    LET n  == Len(times)
        hi == InterpSegment(times, x)
        lo == hi - 1
    IN  IF x < times[1] THEN values[1] * CrScale
        ELSE IF x >= times[n] THEN values[n] * CrScale
        ELSE values[lo] * CrScale
             + MulDiv((values[hi] - values[lo]) * CrScale, x - times[lo],
                      times[hi] - times[lo])

interp_func(times, values, x) ==
    LET hi == InterpSegment(times, x)
        lo == hi - 1
    IN  values[lo] * CrScale
        + MulDiv((values[hi] - values[lo]) * CrScale, x - times[lo],
                 times[hi] - times[lo])

\* The interval whose slope the kinetic GFR uses (1-based).
KgfrInterval(times, t) ==
    LET n == Len(times)
    IN  IF t < times[1] THEN 1
        ELSE IF t >= times[n] THEN n - 1
        ELSE CHOOSE k \in 1..(n - 1) :
                 /\ times[k] <= t /\ t < times[k + 1]
                 /\ \A j \in 1..(k - 1) : ~(times[j] <= t /\ t < times[j + 1])

NoPatient == [age |-> None, sex |-> "", weight |-> None, height |-> None]

\* A query time that is not a datetime.
NotADatetime == 0 - 1999999999

CrFloor == 10

\* build_creatinine_function(cr_data, future_cr, modified_factor, patient_params):
\* the function it returns, as a record.  modified_factor in 1/100;
\* patient_params a record [age, sex, weight, height] or NoPatient (None).
\* future_cr is accepted and never read.
build_creatinine_function(cr_data, future_cr, modified_factor, patient_params) ==
    LET sorted == SortByTime(Range(cr_data))
        times  == [k \in 1..Len(sorted) |-> sorted[k][1]]
        values == [k \in 1..Len(sorted) |-> sorted[k][2]]
    IN  IF modified_factor # 100
        THEN [kind |-> "const", val |-> (values[1] * modified_factor * CrScale) \div 100]
        ELSE IF Len(times) < 2
        THEN [kind |-> "const", val |-> values[1] * CrScale]
        ELSE [kind |-> "cr_logic", times |-> times, values |-> values,
              patient_params |-> patient_params]

\* cr_logic(t), the closure returned for two or more points.
cr_logic(f, t) ==
    IF t = NotADatetime THEN <<f.values[1] * CrScale, None>>
    ELSE LET current_val == PyMax(CrFloor * CrScale, interp_func(f.times, f.values, t))
             idx         == KgfrInterval(f.times, t)
             p           == f.patient_params
         IN  IF p = NoPatient THEN <<current_val, None>>
             ELSE <<current_val,
                    calculate_kgfr(f.values[idx], f.values[idx + 1],
                                   f.times[idx + 1] - f.times[idx],
                                   p.weight, p.height, p.age, p.sex)>>

\* Calling a creatinine function: <<creatinine, kGFR or None>>.  A function of
\* kind "stub" is a caller's own callable, returning the same pair at every
\* time.
CrCall(f, t) ==
    IF f.kind = "const" THEN <<f.val, None>>
    ELSE IF f.kind = "stub" THEN <<f.val, f.kgfr>>
    ELSE cr_logic(f, t)


(***************************************************************************)
(* vanco_pk.py                                                             *)
(***************************************************************************)
INFUSION_RATE == 1000
\* LN2 = np.log(2), in 1/KeScale, rounded down.
LN2 == 693147
StepsPerHour == 12
PopKeMax == 126000
PopKeMin == 5775
KeMax == 170000
KeMin == 5000
KeNaNFallback == 50000
VdFallback == 50
MultFloor == 11

\* A float division x / y of fixed-point numbers: the result in units of
\* 1/scale of the quotient.
FDiv(x, scale, y) == IF IsNaN(x) \/ IsNaN(y) THEN NaN ELSE MulDiv(x, scale, y)

\* pk_params_from_patient without the safety floor of line 65.
pk_params_from_patient_NoFloor(age, sex, weight, height, cr_func, when) ==
    LET cr_data == CrCall(cr_func, when)
        cr      == PyMax(cr_data[1], CrFloor * CrScale)
        crcl    == MulDiv((140 - age) * 884 * 9 * (IF sex = Female THEN 85 ELSE 100),
                          (CrScale * ClScale) \div 10000, cr)
        ke_raw  == MulDiv(crcl, 830, ClScale) + 4400
        ke      == PyMin(ke_raw, PopKeMax)
        vd      == (8 * WeightForVd(sex, weight, height)) \div 10
    IN  [ke |-> ke, vd |-> vd, crcl |-> crcl]

\* pk_params_from_patient(age, sex, weight, height, cr_func, when)
pk_params_from_patient(age, sex, weight, height, cr_func, when) ==
    LET cr_data == CrCall(cr_func, when)
        cr      == PyMax(cr_data[1], CrFloor * CrScale)
        crcl    == MulDiv((140 - age) * 884 * 9 * (IF sex = Female THEN 85 ELSE 100),
                          (CrScale * ClScale) \div 10000, cr)
        ke_raw  == MulDiv(crcl, 830, ClScale) + 4400
        ke      == PyMax(PyMin(ke_raw, PopKeMax), PopKeMin)
        vd      == (8 * WeightForVd(sex, weight, height)) \div 10
    IN  [ke |-> ke, vd |-> vd, crcl |-> crcl]

\* Grid point k (0-based) of t_grid, in minutes: the grid has
\* int(t_max * 12) + 1 points, 5 minutes apart.
GridTime(k) == k * (MinPerHour \div StepsPerHour)

\* vd_safe = self.vd if (self.vd and self.vd > 0) else 50.0
VdSafe(vd) == IF ~IsNaN(vd) /\ vd > 0 THEN vd ELSE VdFallback * VdScale

\* kgfr * 0.06 / vd_safe: mL/min to L/h, over the volume.
KgfrToKe(kgfr, vd_safe) ==
    FDiv(kgfr, (((6 * KeScale) \div 100) * VdScale) \div ClScale, vd_safe)

\* active_ke of one step: the kGFR path or the population path, times the
\* multiplier, clamped, NaN replaced (lines 138-148).
\* The clamp without its floor.
ClampKe_NoFloor(x) == PyMin(x, KeMax)

ClampKe(x) == PyMax(PyMin(x, KeMax), KeMin)

NanGuard(x) == IF IsNaN(x) THEN KeNaNFallback ELSE x

ActiveKe(kgfr, pop_ke, vd_safe, ke_multiplier) ==
    LET raw == IF kgfr # None
               THEN FMul(KgfrToKe(kgfr, vd_safe), ke_multiplier, MultScale)
               ELSE FMul(pop_ke, ke_multiplier, MultScale)
    IN  NanGuard(ClampKe(raw))

\* Whether dose <<t_d, amt>> infuses at grid time t_h:
\* t_d <= t_h <= t_d + amt / INFUSION_RATE + 1e-9.
DoseActive(dose, t_h) ==
    /\ dose[1] <= t_h
    /\ (t_h - dose[1]) * INFUSION_RATE <= dose[2] * MinPerHour

\* rate_in left at the infusion rate when no dose is active.
RateIn_NeverZero(doses, t_h, vd_safe) == MulDiv(INFUSION_RATE * CScale, VdScale, vd_safe)

\* rate_in when only the first dose of the list is looked at.
RateIn_FirstDoseOnly(doses, t_h, vd_safe) ==
    IF doses # <<>> /\ DoseActive(doses[1], t_h)
    THEN MulDiv(INFUSION_RATE * CScale, VdScale, vd_safe)
    ELSE 0

\* rate_in of one step (lines 156-161): the loop over the doses stops at the
\* first active one.
RateIn(doses, t_h, vd_safe) ==
    IF \E k \in 1..Len(doses) : DoseActive(doses[k], t_h)
    THEN MulDiv(INFUSION_RATE * CScale, VdScale, vd_safe)
    ELSE 0

\* The update without its elimination term.
EulerStep_NoElimination(curr_c, rate_in, active_ke) ==
    curr_c + MulDiv(rate_in, 1, StepsPerHour)

\* curr_c += (rate_in - active_ke * curr_c) * dt
EulerStep(curr_c, rate_in, active_ke) ==
    curr_c + MulDiv(rate_in - MulDiv(active_ke, curr_c, KeScale), 1, StepsPerHour)


(***************************************************************************)
(* VancoPK.run as a state machine: RunBegin is the code before the loop    *)
(* (lines 87-128), RunStep one iteration of the loop (lines 130-165),      *)
(* RunReturn the code after it (lines 167-182).                            *)
(***************************************************************************)
RunIdle == [pc |-> "idle", i |-> 0, pop_ke_traj |-> <<>>, curr_c |-> 0, conc |-> <<>>,
            active_ke |-> 0, rate_in |-> 0, ke_used |-> <<>>, auc24 |-> 0,
            result |-> <<>>]

\* The locals after line 128 had lines 109-122 not run: pop_ke_traj as line
\* 108 fills it, with the ke the object holds.
RunEnter_KeepsSelfKe(c) ==
    LET n    == c.n_grid + 1
        traj == [k \in 1..n |-> pk.ke]
    IN  [RunIdle EXCEPT !.pc = "loop", !.pop_ke_traj = traj,
                        !.conc = [k \in 1..n |-> 0], !.active_ke = traj[n]]

\* The locals after line 128, and self.ke as line 124 leaves it.
RunEnter(c) ==
    LET p    == c.patient_info
        n    == c.n_grid + 1
        traj == [k \in 1..n |->
                    pk_params_from_patient(p.age, p.sex, p.weight, p.height, c.cr_func,
                                           c.sim_start + GridTime(k - 1)).ke]
    IN  [RunIdle EXCEPT !.pc = "loop", !.pop_ke_traj = traj,
                        !.conc = [k \in 1..n |-> 0], !.active_ke = traj[n]]

\* One iteration of the loop at index r.i, on locals r with doses ds:
\* the locals after it.  ke_used records the active_ke of every step.
RunIteration(obj, c, ds, r) ==
    LET t_h       == GridTime(r.i)
        kgfr      == CrCall(c.cr_func, c.sim_start + t_h)[2]
        vd_safe   == VdSafe(obj.vd)
        active_ke == ActiveKe(kgfr, r.pop_ke_traj[r.i + 1], vd_safe, obj.ke_multiplier)
        rate_in   == RateIn(ds, t_h, vd_safe)
        curr_c    == EulerStep(r.curr_c, rate_in, active_ke)
    IN  [r EXCEPT !.i = r.i + 1, !.active_ke = active_ke, !.rate_in = rate_in,
                  !.curr_c = curr_c, !.conc[r.i + 1] = PyMax(curr_c, 0),
                  !.ke_used = Append(r.ke_used, active_ke)]

\* The loop of lines 130-165 from locals r to its end: the locals after the
\* last iteration.
RECURSIVE RunLoop(_, _, _)
RunLoop(obj, c, r) ==
    IF r.i > c.n_grid THEN r
    ELSE CHOOSE last \in { RunLoop(obj, c, next) :
                              next \in {RunIteration(obj, c, c.doses, r)} } : TRUE

\* The "conc" of run(doses, ...) on the object obj.
RunCurve(obj, c) == RunLoop(obj, c, RunEnter(c)).conc

\* The stored ke with the multiplier floored at 1.0 instead of 0.01.
StoredKe_FloorOne(active_ke, ke_multiplier) ==
    FDiv(active_ke, MultScale, PyMax(ke_multiplier, MultScale))

\* self.ke = active_ke / max(self.ke_multiplier, 0.01)
StoredKe(active_ke, ke_multiplier) ==
    FDiv(active_ke, MultScale, PyMax(ke_multiplier, MultFloor))

\* seq[lo] + ... + seq[hi], by halves.
RECURSIVE SumBetween(_, _, _)
SumBetween(seq, lo, hi) ==
    IF lo > hi THEN 0
    ELSE IF lo = hi THEN seq[lo]
    ELSE SumBetween(seq, lo, (lo + hi) \div 2) + SumBetween(seq, (lo + hi) \div 2 + 1, hi)

SumFrom(seq, k) == SumBetween(seq, k, Len(seq))

\* auc24 as the sum over the whole run, whatever its length.
Auc24_WholeRun(conc) == SumFrom(conc, 1) \div StepsPerHour

\* auc24 (lines 167-173): the last steps_per_24h = int(24 / dt) entries of
\* conc when it has that many, else all of them, summed and times dt.
Auc24(conc) ==
    LET steps_per_24h == 24 * StepsPerHour
    IN  IF Len(conc) >= steps_per_24h
        THEN SumFrom(conc, Len(conc) - steps_per_24h + 1) \div StepsPerHour
        ELSE SumFrom(conc, 1) \div StepsPerHour

RunResult(obj, r) ==
    [time |-> [k \in 1..Len(r.conc) |-> GridTime(k - 1)], conc |-> r.conc,
     auc24 |-> Auc24(r.conc), ke |-> r.active_ke, vd |-> obj.vd,
     half_life |-> IF r.active_ke > 0 THEN MulDiv(693, KeScale, r.active_ke) ELSE 0]

(***************************************************************************)
(* Inputs.                                                                 *)
(***************************************************************************)
MaxGrid == 18
MaxDoses == 2

NoDosing == [op |-> "none"]
NoCrq == [pc |-> "none"]
NoFcall == [op |-> "none"]

Patients ==
    { [age |-> 65, sex |-> Male, weight |-> 80, height |-> 175],
      [age |-> 100, sex |-> Female, weight |-> 120, height |-> 150] }

\* <<time offset in minutes, amount in mg>>: on and off the 5-minute grid,
\* with infusion windows (15 and 30 minutes) that overlap and that do not.
SingleDoses == { <<0, 500>>, <<10, 250>>, <<33, 250>>, <<40, 500>> }

DoseLists == UNION { [1..n -> SingleDoses] : n \in 0..MaxDoses }

VdInputs == {0, 40 * VdScale}

MultInputs == {NaN, 0 - MultScale, 0, 330, 3300, 100 * MultScale}

\* Creatinine functions handed to run: built from a single point (constant,
\* no kGFR), from a steeply rising pair without patient parameters (a
\* population ke that changes along the grid), from a slowly rising pair
\* with them (a kGFR inside the band), and a caller's own callables
\* returning a NaN and an extreme kGFR.
CrFuncInputs ==
    { build_creatinine_function(<<<<0 - 60, 100>>>>, None, 100, NoPatient),
      build_creatinine_function(<<<<60, 400>>, <<0 - 30, 60>>>>, None, 100, NoPatient),
      build_creatinine_function(<<<<0 - 2880, 100>>, <<0, 130>>>>, None, 100,
                                [age |-> 65, sex |-> Male, weight |-> 80, height |-> 175]) }
    \cup { [kind |-> "stub", val |-> 100 * CrScale, kgfr |-> g] :
             g \in {NaN, 1000 * ClScale} }

Init ==
    /\ pk \in [ke : {60000}, vd : VdInputs, ke_multiplier : {MultScale},
                multiplier_sd : {MultScale \div 5}]
    /\ call \in [doses : DoseLists, n_grid : {MaxGrid \div 2, MaxGrid}, sim_start : {0},
                  cr_func : CrFuncInputs, patient_info : Patients]
    /\ run = RunIdle
    /\ solo = <<>>
    /\ dosing = NoDosing
    /\ crq = NoCrq
    /\ fcall = NoFcall
    /\ runs = <<>>

\* The caller assigns pk.ke_multiplier between calls (streamlit_app.py 397-403).
SetMultiplier ==
    /\ run.pc = "idle"
    /\ \E m \in MultInputs : pk' = [pk EXCEPT !.ke_multiplier = m]
    /\ UNCHANGED <<call, run, solo, dosing, crq, fcall, runs>>

RunBegin ==
    /\ run.pc = "idle"
    /\ run' = RunEnter(call)
    /\ pk' = [pk EXCEPT !.ke = run'.active_ke]
    /\ UNCHANGED <<call, solo, dosing, crq, fcall, runs>>

RunStep ==
    /\ run.pc = "loop"
    /\ run.i <= call.n_grid
    /\ run' = RunIteration(pk, call, call.doses, run)
    /\ pk' = [pk EXCEPT !.ke = StoredKe(run'.active_ke, pk.ke_multiplier)]
    /\ UNCHANGED <<call, solo, dosing, crq, fcall, runs>>

RunReturn ==
    /\ run.pc = "loop"
    /\ run.i > call.n_grid
    /\ run' = [run EXCEPT !.pc = "done", !.auc24 = Auc24(run.conc),
                          !.result = RunResult(pk, run)]
    /\ UNCHANGED <<pk, call, solo, dosing, crq, fcall, runs>>

Next == SetMultiplier \/ RunBegin \/ RunStep \/ RunReturn

Spec == Init /\ [][Next]_vars


(***************************************************************************)
(* SpecSuper: beside the run on the whole dose list, one run per dose of   *)
(* the list on that dose alone, same model object and arguments, advanced  *)
(* step for step.                                                          *)
(***************************************************************************)
SuperBegin ==
    /\ run.pc = "idle"
    /\ run' = RunEnter(call)
    /\ solo' = [k \in 1..Len(call.doses) |-> RunEnter(call)]
    /\ pk' = [pk EXCEPT !.ke = run'.active_ke]
    /\ UNCHANGED <<call, dosing, crq, fcall, runs>>

SuperStep ==
    /\ run.pc = "loop"
    /\ run.i <= call.n_grid
    /\ run' = RunIteration(pk, call, call.doses, run)
    /\ solo' = [k \in 1..Len(solo) |-> RunIteration(pk, call, <<call.doses[k]>>, solo[k])]
    /\ pk' = [pk EXCEPT !.ke = StoredKe(run'.active_ke, pk.ke_multiplier)]
    /\ UNCHANGED <<call, dosing, crq, fcall, runs>>

SuperReturn ==
    /\ run.pc = "loop"
    /\ run.i > call.n_grid
    /\ run' = [run EXCEPT !.pc = "done", !.auc24 = Auc24(run.conc),
                          !.result = RunResult(pk, run)]
    /\ solo' = [k \in 1..Len(solo) |->
                   [solo[k] EXCEPT !.pc = "done", !.auc24 = Auc24(solo[k].conc),
                                   !.result = RunResult(pk, solo[k])]]
    /\ UNCHANGED <<pk, call, dosing, crq, fcall, runs>>

NextSuper == SuperBegin \/ SuperStep \/ SuperReturn

SpecSuper == Init /\ [][NextSuper]_vars

(***************************************************************************)
(* dosing.py and VancoPK.simulate_regimen.  Datetimes are minutes;         *)
(* interval_h is the interval in minutes.                                  *)
(***************************************************************************)
\* The while loop of build_ordered_doses from t on (lines 32-35).
RECURSIVE OrderedLoop(_, _, _, _, _)
OrderedLoop(dose_mg, interval_h, t, sim_start, sim_end) ==
    IF t <= sim_end
    THEN <<<<t - sim_start, dose_mg>>>>
         \o OrderedLoop(dose_mg, interval_h, t + interval_h, sim_start, sim_end)
    ELSE <<>>

\* build_ordered_doses(dose_mg, interval_h, start_dt, sim_start, sim_end)
build_ordered_doses(dose_mg, interval_h, start_dt, sim_start, sim_end) ==
    OrderedLoop(dose_mg, interval_h, start_dt, sim_start, sim_end)

\* The while loop of simulate_regimen from curr_t on (lines 193-197).
RECURSIVE TryLoop(_, _, _, _)
TryLoop(dose_mg, interval_h, curr_t, duration_h) ==
    IF curr_t < duration_h
    THEN <<<<curr_t, dose_mg>>>> \o TryLoop(dose_mg, interval_h, curr_t + interval_h, duration_h)
    ELSE <<>>

\* The arguments simulate_regimen hands to run (lines 189-206): the doses,
\* and a grid of int(duration_h * 12) steps from start_dt.
RegimenCall(c, dose_mg, interval_h, start_dt, end_dt) ==
    LET duration_h == end_dt - start_dt
    IN  [c EXCEPT !.doses = TryLoop(dose_mg, interval_h, 0, duration_h),
                  !.n_grid = (duration_h * StepsPerHour) \div MinPerHour,
                  !.sim_start = start_dt]

DoseArgs == {250, 1000}
IntervalArgs == {30, 45}
StartArgs == {0 - 30, 0, 30}
EndArgs == {60, 90}

InitDose ==
    /\ pk \in [ke : {60000}, vd : VdInputs, ke_multiplier : {MultScale},
                multiplier_sd : {MultScale \div 5}]
    /\ call \in [doses : {<<>>}, n_grid : {0}, sim_start : {0},
                  cr_func : CrFuncInputs, patient_info : Patients]
    /\ run = RunIdle
    /\ solo = <<>>
    /\ dosing = NoDosing
    /\ crq = NoCrq
    /\ fcall = NoFcall
    /\ runs = <<>>

BuildOrdered ==
    /\ dosing.op = "none"
    /\ \E dose_mg \in DoseArgs, interval_h \in IntervalArgs, start_dt \in StartArgs,
          sim_end \in EndArgs :
          dosing' = [op |-> "build_ordered_doses",
                     args |-> [dose_mg |-> dose_mg, interval_h |-> interval_h,
                               start_dt |-> start_dt, sim_start |-> call.sim_start,
                               sim_end |-> sim_end],
                     ret |-> [status |-> "returned",
                              doses |-> build_ordered_doses(dose_mg, interval_h, start_dt,
                                                            call.sim_start, sim_end)]]
    /\ UNCHANGED <<pk, call, run, solo, crq, fcall, runs>>

\* simulate_regimen up to the loop of the run it calls; RunStep and
\* RunReturn are the rest of it.
SimulateRegimen ==
    /\ dosing.op = "none"
    /\ run.pc = "idle"
    /\ \E dose_mg \in DoseArgs, interval_h \in IntervalArgs, start_dt \in StartArgs,
          end_dt \in EndArgs :
          /\ dosing' = [op |-> "simulate_regimen",
                        args |-> [dose_mg |-> dose_mg, interval_h |-> interval_h,
                                  start_dt |-> start_dt, end_dt |-> end_dt],
                        ret |-> [status |-> "running", doses |-> <<>>]]
          /\ call' = RegimenCall(call, dose_mg, interval_h, start_dt, end_dt)
    /\ run' = RunEnter(call')
    /\ pk' = [pk EXCEPT !.ke = run'.active_ke]
    /\ UNCHANGED <<solo, crq, fcall, runs>>

NextDose == BuildOrdered \/ SimulateRegimen \/ RunStep \/ RunReturn

SpecDose == InitDose /\ [][NextDose]_vars

(***************************************************************************)
(* SpecCr: build_creatinine_function is called, then the function it       *)
(* returned is queried.                                                    *)
(***************************************************************************)
MaxCrPoints == 3

CrPoints == {0, 90, 240} \X {8, 100, 101}

\* Lists of measurements in any order, repeats allowed, no two different
\* measurements at the same time.
CrDataInputs ==
    { d \in UNION { [1..n -> CrPoints] : n \in 1..MaxCrPoints } :
        \A j, k \in 1..Len(d) : d[j][1] = d[k][1] => d[j] = d[k] }

CrPatients ==
    Patients \cup { [age |-> 18, sex |-> Male, weight |-> 30, height |-> 230], NoPatient }

QueryTimes == {NotADatetime, 0 - 60, 0, 45, 90, 120, 240, 300}

InitCr ==
    /\ pk = [ke |-> 60000, vd |-> 40 * VdScale, ke_multiplier |-> MultScale,
             multiplier_sd |-> MultScale \div 5]
    /\ call = [doses |-> <<>>, n_grid |-> 0, sim_start |-> 0,
               cr_func |-> [kind |-> "none"], patient_info |-> NoPatient]
    /\ run = RunIdle
    /\ solo = <<>>
    /\ dosing = NoDosing
    /\ crq \in [pc : {"args"}, cr_data : CrDataInputs, future_cr : {None, 300},
                 modified_factor : {100, 25}, patient_params : CrPatients,
                 f : {[kind |-> "none"]}, t : {0}, ret : {<<0, None>>}]
    /\ fcall = NoFcall
    /\ runs = <<>>

BuildCr ==
    /\ crq.pc = "args"
    /\ crq' = [crq EXCEPT !.pc = "built",
                          !.f = build_creatinine_function(crq.cr_data, crq.future_cr,
                                                          crq.modified_factor,
                                                          crq.patient_params)]
    /\ UNCHANGED <<pk, call, run, solo, dosing, fcall, runs>>

QueryCr ==
    /\ crq.pc \in {"built", "queried"}
    /\ \E t \in QueryTimes :
          crq' = [crq EXCEPT !.pc = "queried", !.t = t, !.ret = CrCall(crq.f, t)]
    /\ UNCHANGED <<pk, call, run, solo, dosing, fcall, runs>>

NextCr == BuildCr \/ QueryCr

SpecCr == InitCr /\ [][NextCr]_vars

(***************************************************************************)
(* VancoPK.fit_ke_from_levels and _run_fast.  A log posterior is an        *)
(* integer number of 1/LpScale.                                            *)
(***************************************************************************)
LpScale == 1000 * 1000

\* base_ke_traj[k] (lines 235-249): the kGFR over self.vd where the creatinine
\* function gives one, else the population ke.
BaseKe(obj, c, k) ==
    LET when == c.sim_start + GridTime(k - 1)
        kgfr == CrCall(c.cr_func, when)[2]
        p    == c.patient_info
    IN  IF kgfr # None THEN KgfrToKe(kgfr, obj.vd)
        ELSE pk_params_from_patient(p.age, p.sex, p.weight, p.height, c.cr_func, when).ke

\* The float divisions by self.vd = 0 that Python refuses (lines 242, 218).
FitDividesByZero(obj, c) ==
    /\ obj.vd = 0
    /\ \/ \E k \in 0..c.n_grid : CrCall(c.cr_func, c.sim_start + GridTime(k))[2] # None
       \/ \E k \in 0..c.n_grid, j \in 1..Len(c.doses) : DoseActive(c.doses[j], GridTime(k))

\* _run_fast from grid index i (0-based) on: the entries conc[i..n].
RECURSIVE RunFastFrom(_, _, _, _, _, _)
RunFastFrom(obj, doses, ke_traj, multiplier, i, curr_c) ==
    IF i >= Len(ke_traj) THEN <<>>
    ELSE LET active_ke == FMul(ke_traj[i + 1], multiplier, MultScale)
             rate_in   == RateIn(doses, GridTime(i), obj.vd)
             rest      == { <<PyMax(next_c, 0)>>
                                \o RunFastFrom(obj, doses, ke_traj, multiplier, i + 1, next_c) :
                            next_c \in {EulerStep(curr_c, rate_in, active_ke)} }
         IN  CHOOSE conc \in rest : TRUE

\* _run_fast(doses, t_grid, ke_traj, multiplier)
run_fast(obj, doses, ke_traj, multiplier) ==
    CHOOSE conc \in { RunFastFrom(a[1], a[2], a[3], a[4], 0, 0) :
                         a \in {<<obj, doses, ke_traj, multiplier>>} } : TRUE

\* np.interp(x, t_grid, conc) for one x in minutes: linear between grid
\* points, the end values outside the grid.
NpInterp(x, conc) ==
    LET step == MinPerHour \div StepsPerHour
        n    == Len(conc)
        k    == x \div step
    IN  IF x <= 0 THEN conc[1]
        ELSE IF x >= GridTime(n - 1) THEN conc[n]
        ELSE conc[k + 1] + MulDiv(conc[k + 2] - conc[k + 1], x - k * step, step)

\* mult_grid = np.linspace(0.3, 3.0, 100): entry k (1-based), in 1/MultScale.
MultGridSize == 100
MultGridLo == 330
MultGridStep == 30
MultGrid(k) == MultGridLo + MultGridStep * (k - 1)

\* ll = -sum((obs - preds)^2 / (2 * 2.0^2)), negated.
RECURSIVE SquaredErrors(_, _, _)
SquaredErrors(obs, preds, j) ==
    IF j > Len(obs) THEN 0
    ELSE MulDiv(obs[j] - preds[j], obs[j] - preds[j], (8 * CScale * CScale) \div LpScale)
         + SquaredErrors(obs, preds, j + 1)

\* The prior centred on 3.0, the top of the grid.
LogPrior_CentredHigh(m) ==
    0 - MulDiv((m - 3 * MultScale) * (m - 3 * MultScale), 100 * LpScale,
               18 * MultScale * MultScale)

\* prior = -((m - 1.0)^2) / (2 * 0.3^2)
LogPrior(m) ==
    0 - MulDiv((m - MultScale) * (m - MultScale), LpScale \div 100,
               (18 * MultScale * MultScale) \div 10000)

\* preds = np.interp(times_h, t_grid, res_conc)
Preds(c, levels, res_conc) ==
    [j \in 1..Len(levels.times_dt) |-> NpInterp(levels.times_dt[j] - c.sim_start, res_conc)]

\* log_post entry of multiplier m (lines 254-259).
LogPost(obj, c, levels, ke_traj, m) ==
    CHOOSE lp \in { (0 - SquaredErrors(levels.obs, preds, 1)) + LogPrior(m) :
                       preds \in { Preds(c, levels, res_conc) :
                                      res_conc \in {run_fast(obj, c.doses, ke_traj, m)} } } :
        TRUE

\* np.argmax: the first index of the greatest entry.
ArgMax(f) ==
    CHOOSE k \in 1..Len(f) :
        /\ \A j \in 1..Len(f) : f[j] <= f[k]
        /\ \A j \in 1..(k - 1) : f[j] < f[k]

\* np.gradient(f, mult_grid): central differences inside, one-sided at the
\* two ends, over the spacing MultGridStep / MultScale.
Gradient(f) ==
    LET n == Len(f)
    IN  [k \in 1..n |->
            IF k = 1 THEN MulDiv(f[2] - f[1], MultScale, MultGridStep)
            ELSE IF k = n THEN MulDiv(f[n] - f[n - 1], MultScale, MultGridStep)
            ELSE MulDiv(f[k + 1] - f[k - 1], MultScale, 2 * MultGridStep)]

\* floor(sqrt(n)) for 0 <= n, by bisection of [lo, hi).
RECURSIVE IsqrtIn(_, _, _)
IsqrtIn(n, lo, hi) ==
    IF hi - lo <= 1 THEN lo
    ELSE LET mid == (lo + hi) \div 2
         IN  IF mid * mid <= n THEN IsqrtIn(n, mid, hi) ELSE IsqrtIn(n, lo, mid)

Isqrt(n) == IsqrtIn(n, 0, 46341)

\* d2 = np.gradient(np.gradient(log_post, mult_grid), mult_grid)
SecondGradient(log_post) ==
    CHOOSE d2 \in { Gradient(g) : g \in {Gradient(log_post)} } : TRUE

\* multiplier_sd (lines 263-264), in 1/MultScale.
MultiplierSd(log_post, idx) ==
    CHOOSE sd \in { IF d2 < 0 THEN (MultScale * 1000) \div Isqrt(0 - d2)
                               ELSE MultScale \div 5 :
                       d2 \in {SecondGradient(log_post)[idx]} } : TRUE

\* The assignments of lines 262 and 264 with self.ke assigned as well.
FitStore_TouchesKe(obj, m, sd) ==
    [obj EXCEPT !.ke_multiplier = m, !.multiplier_sd = sd,
                !.ke = FMul(obj.ke, m, MultScale)]

\* The assignments of lines 262 and 264.
FitStore(obj, m, sd) == [obj EXCEPT !.ke_multiplier = m, !.multiplier_sd = sd]

(***************************************************************************)
(* SpecFit: fit_ke_from_levels is called on a fresh model; FitBegin is the *)
(* code before the loop over mult_grid, FitCandidate one iteration of it,  *)
(* FitReturn the code after it.                                            *)
(***************************************************************************)
FitGrid == 12

FitDoseLists == { <<>>, <<<<0, 500>>>>, <<<<0, 250>>, <<30, 250>>>> }

\* Creatinine constant, slowly rising (a kGFR of 70 mL/min) and falling from
\* 300 to 100 in two hours (a kGFR of 290 mL/min, a base rate of 0.43 1/h).
FitCrFuncs ==
    { build_creatinine_function(<<<<0 - 60, 100>>>>, None, 100, NoPatient),
      build_creatinine_function(<<<<0 - 2880, 100>>, <<0, 130>>>>, None, 100,
                                [age |-> 65, sex |-> Male, weight |-> 80, height |-> 175]),
      build_creatinine_function(<<<<0 - 60, 300>>, <<60, 100>>>>, None, 100,
                                [age |-> 65, sex |-> Male, weight |-> 80, height |-> 175]) }

\* Times of the measured levels, in minutes after sim_start.
LevelTimes == { <<47>>, <<20, 58>> }

\* Measured minus predicted, in 1/CScale mg/L: 5 mg/L and 0.001 mg/L either
\* way, none, and 60 mg/L above.
LevelDeviations == {0 - 50000, 0 - 10, 0, 10, 50000, 600000}

\* The concentrations the fit's forward model gives with multiplier 1.0 at
\* the times of the levels.
PopulationPrediction(obj, c, times_dt) ==
    IF FitDividesByZero(obj, c) THEN [j \in 1..Len(times_dt) |-> 0]
    ELSE CHOOSE pred \in
             { [j \in 1..Len(times_dt) |-> NpInterp(times_dt[j] - c.sim_start, conc)] :
                 conc \in { run_fast(obj, c.doses, traj, MultScale) :
                              traj \in {[k \in 1..(c.n_grid + 1) |-> BaseKe(obj, c, k)]} } } :
             TRUE

InitFit ==
    /\ pk \in [ke : {60000}, vd : VdInputs, ke_multiplier : {MultScale},
                multiplier_sd : {MultScale \div 5}]
    /\ call \in [doses : FitDoseLists, n_grid : {FitGrid}, sim_start : {0},
                  cr_func : FitCrFuncs,
                  patient_info : {[age |-> 65, sex |-> Male, weight |-> 80, height |-> 175]}]
    /\ run = RunIdle
    /\ solo = <<>>
    /\ dosing = NoDosing
    /\ crq = NoCrq
    /\ \E times_dt \in LevelTimes, dev \in LevelDeviations :
          \E pred \in {PopulationPrediction(pk, call, times_dt)} :
             LET obs == [j \in 1..Len(times_dt) |-> pred[j] + dev]
             IN  /\ \A j \in 1..Len(obs) : obs[j] >= 0
                 /\ fcall = [op |-> "fit_ke_from_levels", pc |-> "called",
                             args |-> [times_dt |-> times_dt, obs |-> obs],
                             pred |-> pred, pk0 |-> pk, base_ke_traj |-> <<>>,
                             log_post |-> <<>>, ret |-> None]
                 /\ runs = <<>>

IsFit == fcall.op = "fit_ke_from_levels"

FitBegin ==
    /\ IsFit /\ fcall.pc = "called"
    /\ ~FitDividesByZero(pk, call)
    /\ fcall' = [fcall EXCEPT
                    !.pc = "loop",
                    !.base_ke_traj = [k \in 1..(call.n_grid + 1) |-> BaseKe(pk, call, k)]]
    /\ UNCHANGED <<pk, call, run, solo, dosing, crq, runs>>

\* ZeroDivisionError leaves fit_ke_from_levels.
FitRaise ==
    /\ IsFit /\ fcall.pc = "called"
    /\ FitDividesByZero(pk, call)
    /\ fcall' = [fcall EXCEPT !.pc = "raised"]
    /\ UNCHANGED <<pk, call, run, solo, dosing, crq, runs>>

FitCandidate ==
    /\ IsFit /\ fcall.pc = "loop"
    /\ Len(fcall.log_post) < MultGridSize
    /\ fcall' = [fcall EXCEPT
                    !.log_post = Append(fcall.log_post,
                                        LogPost(pk, call, fcall.args, fcall.base_ke_traj,
                                                MultGrid(Len(fcall.log_post) + 1)))]
    /\ UNCHANGED <<pk, call, run, solo, dosing, crq, runs>>

FitReturn ==
    /\ IsFit /\ fcall.pc = "loop"
    /\ Len(fcall.log_post) = MultGridSize
    /\ LET idx == ArgMax(fcall.log_post)
       IN  /\ pk' = FitStore(pk, MultGrid(idx), MultiplierSd(fcall.log_post, idx))
           /\ fcall' = [fcall EXCEPT !.pc = "returned", !.ret = MultGrid(idx)]
    /\ UNCHANGED <<call, run, solo, dosing, crq, runs>>

NextFit == FitBegin \/ FitRaise \/ FitCandidate \/ FitReturn

SpecFit == InitFit /\ [][NextFit]_vars

(***************************************************************************)
(* VancoPK.compute_ci.  A level is in percent.                             *)
(***************************************************************************)
\* z = 0.674 if level == 0.5 else 1.96, in 1/1000.
ZScore(level) == IF level = 50 THEN 674 ELSE 1960

CiFloor == MultScale \div 10

\* compute_ci without the floor of line 281.
compute_ci_NoFloor(obj, level) ==
    LET z_sd == MulDiv(obj.multiplier_sd, ZScore(level), 1000)
    IN  <<obj.ke_multiplier - z_sd, obj.ke_multiplier + z_sd>>

\* compute_ci(level): <<lo_mult, hi_mult>>.
compute_ci(obj, level) ==
    LET z_sd == MulDiv(obj.multiplier_sd, ZScore(level), 1000)
    IN  <<PyMax(obj.ke_multiplier - z_sd, CiFloor), obj.ke_multiplier + z_sd>>

(***************************************************************************)
(* SpecCi: compute_ci is called on a model as __init__ or a fit left it,   *)
(* and the caller puts a bound it returned into ke_multiplier or puts the  *)
(* saved multiplier back (streamlit_app.py 394-403).                       *)
(***************************************************************************)
MaxSets == 2

\* Multipliers as __init__ and the fit leave them: 1.0, and the bottom, the
\* point nearest to 1.0 and the top of mult_grid.
FittedMultipliers == {MultScale, MultGrid(1), MultGrid(27), MultGrid(MultGridSize)}

\* Standard deviations as __init__ and the fit leave them: 0.2, 0.3 and 0.07.
FittedSds == {MultScale \div 5, (3 * MultScale) \div 10, (7 * MultScale) \div 100}

CiLevels == {50, 90, 95}

InitCi ==
    /\ pk \in [ke : {60000}, vd : {40 * VdScale}, ke_multiplier : FittedMultipliers,
                multiplier_sd : FittedSds]
    /\ call = [doses |-> <<>>, n_grid |-> 0, sim_start |-> 0,
               cr_func |-> [kind |-> "none"], patient_info |-> NoPatient]
    /\ run = RunIdle
    /\ solo = <<>>
    /\ dosing = NoDosing
    /\ crq = NoCrq
    /\ fcall = [op |-> "compute_ci", pc |-> "idle", level |-> 0, ret |-> <<0, 0>>,
                pk0 |-> pk, saved |-> pk.ke_multiplier, sets |-> 0]
    /\ runs = <<>>

IsCi == fcall.op = "compute_ci"

ComputeCi ==
    /\ IsCi /\ fcall.pc = "idle"
    /\ \E level \in CiLevels :
          fcall' = [fcall EXCEPT !.pc = "returned", !.level = level,
                                 !.ret = compute_ci(pk, level), !.pk0 = pk]
    /\ UNCHANGED <<pk, call, run, solo, dosing, crq, runs>>

\* pk.ke_multiplier = mult_hi, pk.ke_multiplier = mult_lo
SetBound ==
    /\ IsCi /\ fcall.pc = "returned"
    /\ fcall.sets < MaxSets
    /\ \E k \in 1..2 : pk' = [pk EXCEPT !.ke_multiplier = fcall.ret[k]]
    /\ fcall' = [fcall EXCEPT !.pc = "idle", !.sets = fcall.sets + 1]
    /\ UNCHANGED <<call, run, solo, dosing, crq, runs>>

\* pk.ke_multiplier = current_fitted_mult
RestoreMultiplier ==
    /\ IsCi /\ fcall.pc = "idle"
    /\ pk.ke_multiplier # fcall.saved
    /\ pk' = [pk EXCEPT !.ke_multiplier = fcall.saved]
    /\ UNCHANGED <<call, run, solo, dosing, crq, fcall, runs>>

NextCi == ComputeCi \/ SetBound \/ RestoreMultiplier

SpecCi == InitCi /\ [][NextCi]_vars

(***************************************************************************)
(* dosing.suggest_regimen.  Clearance is an integer number of 1/ClhScale   *)
(* L/h, a time 1/HourScale h, an AUC and a score 1/AucScale mg.h/L, a dose *)
(* estimate 1/ClhScale mg.                                                 *)
(***************************************************************************)
ClhScale == 100 * 100
HourScale == 100 * 100
AucScale == 10 * 100

allowed_intervals == <<6, 8, 12, 18, 24, 36, 48, 72>>
allowed_doses == <<250, 500, 750, 1000, 1250, 1500, 1750, 2000, 2500>>

\* float("inf") as a score.
Inf == 2147483647

\* floor(a * b / c) for c of either sign, c # 0.
SignedMulDiv(a, b, c) == IF c < 0 THEN MulDiv(0 - a, b, 0 - c) ELSE MulDiv(a, b, c)

\* cl = (pk_model.ke * pk_model.ke_multiplier) * pk_model.vd
Clearance(obj) ==
    MulDiv(FMul(obj.ke, obj.ke_multiplier, MultScale), obj.vd,
           (KeScale \div ClhScale) * VdScale)

\* half_life = np.log(2) * vd / cl
HalfLife(obj, cl) == SignedMulDiv(LN2, obj.vd, (((KeScale \div HourScale) * VdScale) \div ClhScale) * cl)

\* dose_est = target_auc * cl / (24 / interval)
DoseEst(cl, target_auc, interval) == MulDiv(target_auc * cl, interval, 24)

\* allowed_doses[np.argmin(np.abs(allowed_doses - dose_est))]: the first of
\* the nearest allowed doses.
DoseRounded(dose_est) ==
    LET dist(k) == Abs(allowed_doses[k] * ClhScale - dose_est)
        idx     == CHOOSE k \in 1..Len(allowed_doses) :
                       /\ \A j \in 1..Len(allowed_doses) : dist(k) <= dist(j)
                       /\ \A j \in 1..(k - 1) : dist(k) < dist(j)
    IN  allowed_doses[idx]

\* predicted_auc = (dose_rounded * doses_per_day) / cl
PredictedAuc(dose, interval, cl) ==
    SignedMulDiv(dose * 24, AucScale * ClhScale, interval * cl)

\* The candidate of one interval with the interval penalty left out of err.
Candidate_NoPenalty(obj, cl, target_auc, interval) ==
    LET dose == DoseRounded(DoseEst(cl, target_auc, interval))
        auc  == PredictedAuc(dose, interval, cl)
    IN  [dose |-> dose, interval |-> interval, auc |-> auc,
         err |-> Abs(auc - target_auc * AucScale)]

\* The candidate of one interval with the interval penalty weighted 500
\* instead of 5: the interval nearest the half-life always wins.
Candidate_HeavyPenalty(obj, cl, target_auc, interval) ==
    LET dose    == DoseRounded(DoseEst(cl, target_auc, interval))
        auc     == PredictedAuc(dose, interval, cl)
        penalty == Abs(interval * HourScale - HalfLife(obj, cl))
    IN  [dose |-> dose, interval |-> interval, auc |-> auc,
         err |-> Abs(auc - target_auc * AucScale)
                 + MulDiv(penalty, 500 * AucScale, HourScale)]

\* The candidate of one interval and its err (lines 75-91).
Candidate(obj, cl, target_auc, interval) ==
    LET dose    == DoseRounded(DoseEst(cl, target_auc, interval))
        auc     == PredictedAuc(dose, interval, cl)
        penalty == Abs(interval * HourScale - HalfLife(obj, cl))
    IN  [dose |-> dose, interval |-> interval, auc |-> auc,
         err |-> Abs(auc - target_auc * AucScale)
                 + MulDiv(penalty, 5 * AucScale, HourScale)]

\* The loop of lines 73-95 from interval k on: best is replaced when err is
\* strictly below best_err.
RECURSIVE SuggestLoop(_, _, _, _, _)
SuggestLoop(obj, cl, target_auc, k, best) ==
    IF k > Len(allowed_intervals) THEN best
    ELSE CHOOSE r \in { SuggestLoop(obj, cl, target_auc, k + 1,
                                    IF c.err < best.err THEN c ELSE best) :
                          c \in {Candidate(obj, cl, target_auc, allowed_intervals[k])} } : TRUE

\* suggest_regimen(pk_model, target_auc).  With cl = 0 the division of line
\* 88 raises ZeroDivisionError when the model's fields are Python floats;
\* when one of them is a numpy float every err is inf or nan, none is below
\* best_err, and best is returned as it was initialised: None.
suggest_regimen(obj, target_auc, numpy_floats) ==
    LET cl == Clearance(obj)
    IN  IF cl = 0
        THEN [status |-> IF numpy_floats THEN "returned None" ELSE "ZeroDivisionError",
              dose |-> None, interval |-> None, auc |-> None]
        ELSE LET best == SuggestLoop(obj, cl, target_auc, 1,
                                     [dose |-> None, interval |-> None, auc |-> None,
                                      err |-> Inf])
             IN  [status |-> "returned", dose |-> best.dose, interval |-> best.interval,
                  auc |-> best.auc]

(***************************************************************************)
(* SpecSuggest: suggest_regimen is called on a model.                      *)
(***************************************************************************)
\* ke from the floor to the ceiling of pk_params_from_patient, every 0.001
\* between 0.08 and 0.1, and 0.09902, whose half-life with a multiplier of
\* 1.0 is 7.0000 h: as far from 6 h as from 8 h.
SuggestKes == {PopKeMin, 53926, 99020, PopKeMax} \cup {80000 + 1000 * k : k \in 0..20}

\* Vd: none, small, and every litre from 50 to 60.
SuggestVds == {0, 20 * VdScale} \cup {(50 + k) * VdScale : k \in 0..10}

\* Multipliers a caller may have stored: negative, zero, the ends and the
\* middle of the fit's grid, and 1.0.
SuggestMults == {0 - MultScale, 0, MultGrid(1), MultScale, MultGrid(27), MultGrid(MultGridSize)}

InitSuggest ==
    /\ pk \in [ke : SuggestKes, vd : SuggestVds, ke_multiplier : SuggestMults,
                multiplier_sd : {MultScale \div 5}]
    /\ call = [doses |-> <<>>, n_grid |-> 0, sim_start |-> 0,
               cr_func |-> [kind |-> "none"], patient_info |-> NoPatient]
    /\ run = RunIdle
    /\ solo = <<>>
    /\ dosing \in [op : {"suggest_regimen"}, pc : {"called"},
                    args : [target_auc : {400, 500}, numpy_floats : BOOLEAN],
                    ret : {[status |-> "none"]}]
    /\ crq = NoCrq
    /\ fcall = NoFcall
    /\ runs = <<>>

Suggest ==
    /\ dosing.op = "suggest_regimen"
    /\ dosing.pc = "called"
    /\ dosing' = [dosing EXCEPT
                     !.pc = "returned",
                     !.ret = suggest_regimen(pk, dosing.args.target_auc,
                                             dosing.args.numpy_floats)]
    /\ UNCHANGED <<pk, call, run, solo, crq, fcall, runs>>

NextSuggest == Suggest

SpecSuggest == InitSuggest /\ [][NextSuggest]_vars

(***************************************************************************)
(* SpecRepeat: a caller runs one object again and again, assigning         *)
(* ke_multiplier before each call as streamlit_app.py 394-403 does: the    *)
(* multiplier the object was built with or a bound of its compute_ci.      *)
(***************************************************************************)
MaxRuns == 3

RepeatGrid == 6

\* The arguments of the calls, one for each creatinine function built in
\* CrFuncInputs: constant and steeply rising (no kGFR), slowly rising with
\* patient parameters (a kGFR).
RepeatPatient == [age |-> 65, sex |-> Male, weight |-> 80, height |-> 175]

RepeatCalls ==
    { [doses |-> IF f.kind = "const" THEN <<<<0, 500>>>> ELSE <<<<10, 250>>>>,
       n_grid |-> RepeatGrid, sim_start |-> 0, cr_func |-> f,
       patient_info |-> RepeatPatient] : f \in {g \in CrFuncInputs : g.kind # "stub"} }

\* The multipliers assigned: the one of __init__, the upper bound of
\* compute_ci(0.5) and the lower bound of compute_ci(0.95) of it.
RepeatMults(obj) == {MultScale, compute_ci(obj, 50)[2], compute_ci(obj, 95)[1]}

InitRepeat ==
    /\ pk \in [ke : {60000}, vd : {40 * VdScale}, ke_multiplier : {MultScale},
                multiplier_sd : {MultScale \div 5, (85 * MultScale) \div 100}]
    /\ call = [doses |-> <<>>, n_grid |-> 0, sim_start |-> 0,
               cr_func |-> [kind |-> "none"], patient_info |-> NoPatient]
    /\ run = RunIdle
    /\ solo = <<>>
    /\ dosing = NoDosing
    /\ crq = NoCrq
    /\ fcall = NoFcall
    /\ runs = <<>>

\* pk.ke_multiplier = m; pk.run(doses, ...): the assignment and the code of
\* run before its loop.
RepeatCall ==
    /\ run.pc = "idle"
    /\ Len(runs) < MaxRuns
    /\ \E c \in RepeatCalls :
          \E m \in RepeatMults([pk EXCEPT !.ke_multiplier = MultScale]) :
             /\ call' = c
             /\ run' = RunEnter(c)
             /\ pk' = [pk EXCEPT !.ke_multiplier = m, !.ke = run'.active_ke]
             /\ runs' = Append(runs, [call |-> c, ke_multiplier |-> m, ke_before |-> pk.ke,
                                      result |-> <<>>])
    /\ UNCHANGED <<solo, dosing, crq, fcall>>

\* res = pk.run(...): the caller keeps what run returned.
RepeatKeep ==
    /\ run.pc = "done"
    /\ runs # <<>>
    /\ runs' = [runs EXCEPT ![Len(runs)].result = run.result]
    /\ run' = RunIdle
    /\ UNCHANGED <<pk, call, solo, dosing, crq, fcall>>

NextRepeat == RepeatCall \/ RunStep \/ RunReturn \/ RepeatKeep

SpecRepeat == InitRepeat /\ [][NextRepeat]_vars

(***************************************************************************)
(* dosing.build_manual_doses and SpecManual: it is called on two lists.    *)
(* A dose time is a number of minutes from sim_start, as in run.           *)
(***************************************************************************)
\* zip(dose_list, time_list): the pairs up to the end of the shorter list.
Zip(xs, ys) ==
    LET n == IF Len(xs) < Len(ys) THEN Len(xs) ELSE Len(ys)
    IN  [k \in 1..n |-> <<xs[k], ys[k]>>]

\* build_manual_doses(dose_list, time_list, sim_start): the list of
\* (t_hours, dose) it returns; no statement of it raises.
build_manual_doses(dose_list, time_list, sim_start) ==
    LET pairs == Zip(dose_list, time_list)
    IN  [status |-> "returned",
         doses |-> [k \in 1..Len(pairs) |-> <<pairs[k][2] - sim_start, pairs[k][1]>>]]

MaxManual == 3

ManualAmounts == {250, 500}
ManualTimes == {0 - 30, 0, 45}

SeqsUpTo(S, n) == UNION { [1..k -> S] : k \in 0..n }

InitManual ==
    /\ pk = [ke |-> 60000, vd |-> 40 * VdScale, ke_multiplier |-> MultScale,
             multiplier_sd |-> MultScale \div 5]
    /\ call = [doses |-> <<>>, n_grid |-> 0, sim_start |-> 0,
               cr_func |-> [kind |-> "none"], patient_info |-> NoPatient]
    /\ run = RunIdle
    /\ solo = <<>>
    /\ dosing \in [op : {"build_manual_doses"}, pc : {"called"},
                    args : [dose_list : SeqsUpTo(ManualAmounts, MaxManual),
                            time_list : SeqsUpTo(ManualTimes, MaxManual),
                            sim_start : {0, 30}],
                    ret : {[status |-> "none"]}]
    /\ crq = NoCrq
    /\ fcall = NoFcall
    /\ runs = <<>>

BuildManual ==
    /\ dosing.op = "build_manual_doses"
    /\ dosing.pc = "called"
    /\ dosing' = [dosing EXCEPT
                     !.pc = "returned",
                     !.ret = build_manual_doses(dosing.args.dose_list, dosing.args.time_list,
                                                dosing.args.sim_start)]
    /\ UNCHANGED <<pk, call, run, solo, crq, fcall, runs>>

NextManual == BuildManual

SpecManual == InitManual /\ [][NextManual]_vars

(***************************************************************************)
(* SpecDay: run over windows shorter than, equal to and longer than 24 h.  *)
(***************************************************************************)
DaySteps == 24 * StepsPerHour

\* duration_days * 24 * 12: 90 minutes, 23 h 55 min, 24 h, 25 h 30 min.
DayGrids == {MaxGrid, DaySteps - 1, DaySteps, DaySteps + MaxGrid}

InitDay ==
    /\ pk = [ke |-> 60000, vd |-> 40 * VdScale, ke_multiplier |-> MultScale,
             multiplier_sd |-> MultScale \div 5]
    /\ call \in [doses : {<<<<0, 500>>>>, <<<<0, 250>>, <<40, 500>>>>}, n_grid : DayGrids,
                  sim_start : {0},
                  cr_func : {build_creatinine_function(<<<<0 - 60, 100>>>>, None, 100,
                                                       NoPatient)},
                  patient_info : {[age |-> 65, sex |-> Male, weight |-> 80, height |-> 175]}]
    /\ run = RunIdle
    /\ solo = <<>>
    /\ dosing = NoDosing
    /\ crq = NoCrq
    /\ fcall = NoFcall
    /\ runs = <<>>

NextDay == RunBegin \/ RunStep \/ RunReturn

SpecDay == InitDay /\ [][NextDay]_vars

(***************************************************************************)
(* SpecParams: pk_params_from_patient is called on a patient and a         *)
(* creatinine function returning one value.                                *)
(***************************************************************************)
\* Creatinine values in umol/L: negative, zero, below the floor of 10, the
\* UI's range 35-500, and far above it.
CrValueInputs == {0 - 50, 0, 5, 10, 35, 100, 200, 500, 2000, 100000}

ParamPatients ==
    [age : {18, 65, 100}, sex : {Male, Female}, weight : {30, 80, 200}, height : {140, 175}]

InitParams ==
    /\ pk = [ke |-> 60000, vd |-> 40 * VdScale, ke_multiplier |-> MultScale,
             multiplier_sd |-> MultScale \div 5]
    /\ call = [doses |-> <<>>, n_grid |-> 0, sim_start |-> 0,
               cr_func |-> [kind |-> "none"], patient_info |-> NoPatient]
    /\ run = RunIdle
    /\ solo = <<>>
    /\ dosing = NoDosing
    /\ crq = NoCrq
    /\ fcall \in [op : {"pk_params_from_patient"}, pc : {"called"},
                   args : [patient : ParamPatients, cr : CrValueInputs],
                   ret : {[ke |-> 0, vd |-> 0, crcl |-> 0]}]
    /\ runs = <<>>

PkParams ==
    /\ fcall.op = "pk_params_from_patient"
    /\ fcall.pc = "called"
    /\ LET p == fcall.args.patient
       IN  fcall' = [fcall EXCEPT
                       !.pc = "returned",
                       !.ret = pk_params_from_patient(
                                   p.age, p.sex, p.weight, p.height,
                                   [kind |-> "const", val |-> fcall.args.cr * CrScale], 0)]
    /\ UNCHANGED <<pk, call, run, solo, dosing, crq, runs>>

NextParams == PkParams

SpecParams == InitParams /\ [][NextParams]_vars

(***************************************************************************)
(* Claims about VancoPK.run, checked under Spec.                           *)
(***************************************************************************)
Started == run.pc \in {"loop", "done"}

ActiveCount(doses, t_h) == Cardinality({k \in 1..Len(doses) : DoseActive(doses[k], t_h)})

\* C2: when the infusion windows of k doses hold a grid time, the input rate
\* applied at that step is k * 1000 / Vd, the sum of their contributions.
C2_OverlappingDosesSum ==
    (Started /\ run.i >= 1) =>
        run.rate_in = ActiveCount(call.doses, GridTime(run.i - 1))
                      * MulDiv(INFUSION_RATE * CScale, VdScale, VdSafe(pk.vd))

\* The grid indices (0-based) at which the one dose of the call infuses.
ActiveSteps == {j \in 0..call.n_grid : DoseActive(call.doses[1], GridTime(j))}

ConstantKe == \A j, k \in 1..Len(run.ke_used) : run.ke_used[j] = run.ke_used[k]

\* C4: for a single dose and a constant elimination rate, at every grid step
\* after the last one at which the infusion is active the concentration is
\* strictly lower than at the step before, and no concentration is negative.
C4_SingleDoseDecay ==
    (Started /\ Len(call.doses) = 1 /\ ConstantKe) =>
        /\ \A k \in 1..Len(run.conc) : run.conc[k] >= 0
        /\ \A j \in 1..(run.i - 1) :
               (ActiveSteps # {} /\ \A a \in ActiveSteps : a < j)
                   => run.conc[j + 1] < run.conc[j]

\* A finished run of one dose whose infusion ended at least two steps before
\* the end of the grid, under a rate the clamp did not touch.
C4_Witness ==
    /\ run.pc = "done"
    /\ Len(call.doses) = 1
    /\ ConstantKe
    /\ ActiveSteps # {}
    /\ \A a \in ActiveSteps : a + 2 <= call.n_grid
    /\ run.active_ke > KeMin /\ run.active_ke < KeMax
    /\ run.conc[call.n_grid + 1] < run.conc[call.n_grid]
    /\ run.conc[call.n_grid + 1] > 0

\* C5: with an empty dose list the concentration is 0 at every grid point and
\* AUC24 is 0, whatever the patient, the creatinine function and the multiplier.
C5_NoDosesZero ==
    (Started /\ call.doses = <<>>) =>
        /\ \A k \in 1..Len(run.conc) : run.conc[k] = 0
        /\ run.curr_c = 0
        /\ run.pc = "done" => (run.auc24 = 0 /\ run.result.auc24 = 0
                                /\ \A k \in 1..Len(run.result.conc) : run.result.conc[k] = 0)

\* A finished run without doses, on the kGFR path under a NaN multiplier.
C5_Witness ==
    /\ run.pc = "done"
    /\ call.doses = <<>>
    /\ IsNaN(pk.ke_multiplier)
    /\ call.cr_func.kind = "stub"
    /\ Len(run.conc) = MaxGrid + 1
    /\ run.result.auc24 = 0


\* The rounding the three fixed-point trajectories can differ by: each step
\* rounds down twice.
SuperTol == 4 * (MaxGrid + 2)

WindowsOverlap(d, e) ==
    \E j \in 0..call.n_grid : DoseActive(d, GridTime(j)) /\ DoseActive(e, GridTime(j))

\* C3 (under SpecSuper): for a constant elimination rate, the trajectory of a
\* list of two doses is, at every grid point, the sum of the trajectories of
\* each dose alone, overlapping infusion windows included.
C3_Superposition ==
    (Started /\ Len(call.doses) = 2 /\ ConstantKe) =>
        \A k \in 1..run.i :
            Abs(run.conc[k] - (solo[1].conc[k] + solo[2].conc[k])) <= SuperTol

\* The same for two doses whose infusion windows share no grid point.
C3_SuperpositionDisjoint ==
    (Started /\ Len(call.doses) = 2 /\ ConstantKe
       /\ ~WindowsOverlap(call.doses[1], call.doses[2])) =>
        \A k \in 1..run.i :
            Abs(run.conc[k] - (solo[1].conc[k] + solo[2].conc[k])) <= SuperTol

(***************************************************************************)
(* Claims about the dose builders, checked under SpecDose.                 *)
(***************************************************************************)
\* C6: build_ordered_doses called with start_dt earlier than sim_start fails
\* with a validation error and returns no dose list.
C6_EarlyStartRejected ==
    (dosing.op = "build_ordered_doses" /\ dosing.args.start_dt < dosing.args.sim_start)
        => (dosing.ret.status = "raised" /\ dosing.ret.doses = <<>>)

\* C7: the doses simulate_regimen(dose, interval, start, end) hands to run are
\* the list build_ordered_doses(dose, interval, start, start, end) produces,
\* the dose at the offset equal to the window length included.
C7_RegimenIsOrderedList ==
    dosing.op = "simulate_regimen"
        => call.doses = build_ordered_doses(dosing.args.dose_mg, dosing.args.interval_h,
                                            dosing.args.start_dt, dosing.args.start_dt,
                                            dosing.args.end_dt)

(***************************************************************************)
(* Claims about build_creatinine_function, checked under SpecCr.           *)
(***************************************************************************)
\* A query at a datetime of a function built from two or more points.
SeriesQueried ==
    /\ crq.pc = "queried"
    /\ crq.f.kind = "cr_logic"
    /\ crq.t # NotADatetime

\* The line through points k and k + 1 of the series at time t, rounded down,
\* in 1/CrScale umol/L.
LineThrough(k, t) ==
    LET times  == crq.f.times
        values == crq.f.values
        dx     == times[k + 1] - times[k]
    IN  (values[k] * CrScale * dx + (values[k + 1] - values[k]) * CrScale * (t - times[k]))
            \div dx

\* The segment whose line the claim names at time t: the first before the
\* series, the last at or after its end, the bracketing one in between.
SegmentAt(t) ==
    LET times == crq.f.times
        n     == Len(times)
    IN  IF t < times[1] THEN 1
        ELSE IF t >= times[n] THEN n - 1
        ELSE CHOOSE k \in 1..(n - 1) : times[k] <= t /\ t < times[k + 1]

Floored(x) == IF x < CrFloor * CrScale THEN CrFloor * CrScale ELSE x

\* C8 (amended): for a series of two or more points at distinct times, no
\* future value and a datetime query, the creatinine returned is, floored at
\* 10 umol/L, the first segment's line extended before the first timestamp,
\* the last segment's line extended at or after the last timestamp, and the
\* linear interpolation between the bracketing points in between.
C8_ExtrapolatesTrend ==
    (SeriesQueried /\ crq.future_cr = None)
        => crq.ret[1] = Floored(LineThrough(SegmentAt(crq.t), crq.t))

\* A query after the last timestamp whose answer is neither the last value
\* nor the floor.
C8_Witness ==
    /\ SeriesQueried /\ crq.future_cr = None
    /\ crq.t > crq.f.times[Len(crq.f.times)]
    /\ crq.ret[1] # crq.f.values[Len(crq.f.values)] * CrScale
    /\ crq.ret[1] > CrFloor * CrScale

\* C8 as stated: the first value before the first timestamp, the last value
\* at or after the last timestamp, the interpolation in between.
C8_HoldsOutsideSeries ==
    (SeriesQueried /\ crq.future_cr = None)
        => LET times  == crq.f.times
               values == crq.f.values
               n      == Len(times)
           IN  crq.ret[1] = IF crq.t < times[1] THEN values[1] * CrScale
                            ELSE IF crq.t >= times[n] THEN values[n] * CrScale
                            ELSE LineThrough(SegmentAt(crq.t), crq.t)

\* C9: the creatinine returned is at least 10 umol/L for every series and
\* every query, the single-point case, the modified_factor case and a query
\* that is not a datetime included.
C9_CreatinineFloored ==
    crq.pc = "queried" => crq.ret[1] >= CrFloor * CrScale

\* A query inside the series, patient supplied, creatinine rising from a
\* positive value over the interval the kinetic GFR is computed from.
RisingQueried ==
    /\ SeriesQueried
    /\ crq.f.patient_params # NoPatient
    /\ crq.f.times[1] <= crq.t
    /\ crq.t <= crq.f.times[Len(crq.f.times)]
    /\ LET k == SegmentAt(crq.t)
       IN  crq.f.values[k] > 0 /\ crq.f.values[k + 1] > crq.f.values[k]

\* Cockcroft-Gault clearance times 0.9 from one creatinine value, rounded
\* down, in 1/ClScale mL/min.
CockcroftGault(cr, age, sex) ==
    ((140 - age) * 884 * (IF sex = Female THEN 85 ELSE 100) * 9) \div (10 * cr)

C10_WitnessFloor ==
    RisingQueried /\ crq.ret[2] = ClScale \div 10

(***************************************************************************)
(* Claims about pk_params_from_patient, checked under SpecParams.          *)
(***************************************************************************)
ParamsReturned == fcall.op = "pk_params_from_patient" /\ fcall.pc = "returned"

\* 0.00083 * crcl + 0.0044 for the crcl returned, in 1/KeScale per hour.
Matzke(crcl) == (830 * crcl) \div ClScale + 4400

\* C11 (amended): the ke returned lies in [0.693/120, 0.693/5.5] =
\* [0.005775, 0.126] for every age, sex, weight, height and creatinine value,
\* creatinine <= 0 included (floored to 10 umol/L, no error), and equals
\* 0.00083 * crcl + 0.0044 whenever that value lies inside the band.
C11_KeInCodeBand ==
    ParamsReturned
        => LET r == fcall.ret
           IN  /\ r.ke >= PopKeMin /\ r.ke <= PopKeMax
               /\ (Matzke(r.crcl) >= PopKeMin /\ Matzke(r.crcl) <= PopKeMax)
                      => r.ke = Matzke(r.crcl)
               /\ fcall.args.cr <= CrFloor
                      => r.crcl = CockcroftGault(CrFloor, fcall.args.patient.age,
                                                 fcall.args.patient.sex)

\* A creatinine of zero or less went through.
C11_Witness ==
    ParamsReturned /\ fcall.args.cr <= 0 /\ fcall.ret.ke = PopKeMax

\* The floor of the band is returned.
C11_WitnessFloor ==
    ParamsReturned /\ fcall.ret.ke = PopKeMin

\* A value strictly inside the band is returned.
C11_WitnessInside ==
    ParamsReturned /\ fcall.ret.ke > PopKeMin /\ fcall.ret.ke < PopKeMax

\* C11 as stated: the ke returned lies in [ln2/120, ln2/5.5].
C11_KeInLn2Band ==
    ParamsReturned
        => (fcall.ret.ke * 120 > LN2 /\ fcall.ret.ke * 55 <= 10 * LN2 + 1)

(***************************************************************************)
(* Claims about the elimination rate of run, checked under Spec.           *)
(***************************************************************************)
\* C12: a run in mode "crcl" uses at every step the population ke times the
\* multiplier, clamped, even where the creatinine function returns a kinetic
\* GFR.  run takes no mode argument, so every call it accepts is the one the
\* claim is about.
C12_CrclUsesPopulationKe ==
    (Started /\ run.i > 0)
        => run.ke_used[run.i]
             = NanGuard(ClampKe(FMul(run.pop_ke_traj[run.i], pk.ke_multiplier, MultScale)))

(***************************************************************************)
(* Claims about fit_ke_from_levels, checked under SpecFit.                 *)
(***************************************************************************)
FitReturned == IsFit /\ fcall.pc = "returned"

LevelsAllHigher ==
    \A j \in 1..Len(fcall.args.obs) : fcall.args.obs[j] > fcall.pred[j]

LevelsAllLower ==
    \A j \in 1..Len(fcall.args.obs) : fcall.args.obs[j] < fcall.pred[j]

\* C13: levels all above the prediction of multiplier 1.0 give a multiplier
\* strictly below 1.0, levels all below it a multiplier strictly above 1.0,
\* however small the deviation.
C13_FitMonotone ==
    FitReturned
        => /\ LevelsAllHigher => fcall.ret < MultScale
           /\ LevelsAllLower => fcall.ret > MultScale

\* C13 for the deviations of 5 mg/L after a dose: there the fit moves the way
\* the claim says.
C13_FitMonotoneLargeDeviation ==
    (FitReturned /\ Len(call.doses) > 0)
        => /\ (\A j \in 1..Len(fcall.args.obs) :
                   fcall.args.obs[j] >= fcall.pred[j] + 5 * CScale)
                 => fcall.ret < MultScale
           /\ LevelsAllLower => fcall.ret > MultScale

ExactSingleLevel ==
    /\ FitReturned
    /\ Len(fcall.args.obs) = 1
    /\ fcall.args.obs = fcall.pred

\* C14: a single level equal to the prediction of multiplier 1.0 gives the
\* grid point nearest to 1.0, which is within one grid spacing of 1.0.
C14_ExactLevelNearOne ==
    ExactSingleLevel
        => /\ \A k \in 1..MultGridSize :
                  Abs(fcall.ret - MultScale) <= Abs(MultGridLo + MultGridStep * (k - 1) - MultScale)
           /\ Abs(fcall.ret - MultScale) <= MultGridStep
           /\ pk.ke_multiplier = fcall.ret

\* The level follows a dose, so that the prediction is not zero.
C14_Witness ==
    ExactSingleLevel /\ fcall.pred[1] > 0 /\ fcall.ret = MultScale + 10

\* C15: fit_ke_from_levels leaves the model's ke and vd as they were before
\* the call, at every point of the call and when it raises.
C15_FitLeavesKeAndVd ==
    IsFit => (pk.ke = fcall.pk0.ke /\ pk.vd = fcall.pk0.vd)

\* The fit returned and stored a multiplier and a standard deviation other
\* than those it found.
C15_Witness ==
    /\ FitReturned
    /\ pk.ke_multiplier # fcall.pk0.ke_multiplier
    /\ pk.multiplier_sd # fcall.pk0.multiplier_sd

\* The call left by a ZeroDivisionError.
C15_WitnessRaised ==
    IsFit /\ fcall.pc = "raised"

(***************************************************************************)
(* Claims about compute_ci, checked under SpecCi.                          *)
(***************************************************************************)
CiReturned == IsCi /\ fcall.pc = "returned"

\* C16: compute_ci(level) returns (max(m - z*sd, 0.1), m + z*sd), z = 0.674
\* for level 0.5 and 1.96 for level 0.95; lo is at least 0.1, lo <= m <= hi,
\* and no field of the model changes.
C16_ComputeCi ==
    CiReturned
        => LET m    == fcall.pk0.ke_multiplier
               sd   == fcall.pk0.multiplier_sd
               z    == IF fcall.level = 50 THEN 674 ELSE IF fcall.level = 95 THEN 1960 ELSE 0
               z_sd == (z * sd) \div 1000
               lo   == fcall.ret[1]
               hi   == fcall.ret[2]
           IN  /\ fcall.level \in {50, 95}
                    => (lo = (IF m - z_sd > MultScale \div 10 THEN m - z_sd
                                                              ELSE MultScale \div 10)
                        /\ hi = m + z_sd)
               /\ lo >= MultScale \div 10
               /\ lo <= m /\ m <= hi
               /\ pk = fcall.pk0

\* The floor of 0.1 is what compute_ci(0.95) returns as lo.
C16_Witness ==
    /\ CiReturned /\ fcall.level = 95
    /\ fcall.ret[1] = MultScale \div 10
    /\ fcall.pk0.ke_multiplier - (1960 * fcall.pk0.multiplier_sd) \div 1000 < 0

\* compute_ci(0.5) returns a lo above the floor.
C16_WitnessInside ==
    /\ CiReturned /\ fcall.level = 50
    /\ fcall.ret[1] > MultScale \div 10

(***************************************************************************)
(* suggest_regimen claims (SpecSuggest).                                   *)
(***************************************************************************)
SuggestReturned == dosing.op = "suggest_regimen" /\ dosing.pc = "returned"

AllowedIntervalSet == {allowed_intervals[k] : k \in 1..Len(allowed_intervals)}
AllowedDoseSet == {allowed_doses[k] : k \in 1..Len(allowed_doses)}

\* |predicted_auc - target_auc| + 5 * |interval - ln2*Vd/clearance| of a
\* dose and an interval for the model and the target of the call.
ScoreOf(dose, interval) ==
    LET cl == Clearance(pk)
    IN  Abs(PredictedAuc(dose, interval, cl) - dosing.args.target_auc * AucScale)
        + MulDiv(Abs(interval * HourScale - HalfLife(pk, cl)), 5 * AucScale, HourScale)

\* dose is an allowed dose nearest to target_auc * clearance * interval / 24.
NearestAllowed(dose, interval) ==
    LET est == DoseEst(Clearance(pk), dosing.args.target_auc, interval)
    IN  /\ dose \in AllowedDoseSet
        /\ \A e \in AllowedDoseSet : Abs(dose * ClhScale - est) <= Abs(e * ClhScale - est)

\* C17: with a positive clearance suggest_regimen returns a dose and an
\* interval of the allowed sets, the dose an allowed dose nearest to
\* target_auc * clearance * interval / 24, the predicted AUC that of the
\* pair, the score of the pair minimal over the candidates of the eight
\* intervals and strictly below the score of every smaller interval.
C17_MinimalScore ==
    (SuggestReturned /\ Clearance(pk) > 0) =>
        /\ dosing.ret.status = "returned"
        /\ dosing.ret.interval \in AllowedIntervalSet
        /\ NearestAllowed(dosing.ret.dose, dosing.ret.interval)
        /\ dosing.ret.auc = PredictedAuc(dosing.ret.dose, dosing.ret.interval, Clearance(pk))
        /\ \A i \in AllowedIntervalSet :
              \E d \in AllowedDoseSet :
                  /\ NearestAllowed(d, i)
                  /\ ScoreOf(dosing.ret.dose, dosing.ret.interval) <= ScoreOf(d, i)
                  /\ i < dosing.ret.interval =>
                         ScoreOf(dosing.ret.dose, dosing.ret.interval) < ScoreOf(d, i)

\* A call returned a candidate that another interval beats on the AUC error
\* alone: the interval penalty decided.
C17_Witness ==
    /\ SuggestReturned
    /\ Clearance(pk) > 0
    /\ dosing.ret.status = "returned"
    /\ \E i \in AllowedIntervalSet, d \in AllowedDoseSet :
          /\ NearestAllowed(d, i)
          /\ Abs(PredictedAuc(d, i, Clearance(pk)) - dosing.args.target_auc * AucScale)
               < Abs(dosing.ret.auc - dosing.args.target_auc * AucScale)

\* A call returned the smaller of two intervals of equal score.
C17_WitnessTie ==
    /\ SuggestReturned
    /\ Clearance(pk) > 0
    /\ dosing.ret.status = "returned"
    /\ \E i \in AllowedIntervalSet, d \in AllowedDoseSet :
          /\ i > dosing.ret.interval
          /\ NearestAllowed(d, i)
          /\ ScoreOf(d, i) = ScoreOf(dosing.ret.dose, dosing.ret.interval)

\* ke * ke_multiplier in [0.08, 0.1] 1/h and Vd in [50, 60] L.
NormalRenalFunction ==
    /\ pk.ke_multiplier > 0
    /\ FMul(pk.ke, pk.ke_multiplier, MultScale) >= 80000
    /\ FMul(pk.ke, pk.ke_multiplier, MultScale) <= 100000
    /\ pk.vd >= 50 * VdScale
    /\ pk.vd <= 60 * VdScale

\* C18: for ke * ke_multiplier in [0.08, 0.1] and Vd in [50, 60] L a call
\* with target_auc = 500 returns a predicted AUC24 in [425, 575] with a dose
\* and an interval of the allowed sets.
C18_AdvisorSanity ==
    (SuggestReturned /\ NormalRenalFunction /\ dosing.args.target_auc = 500) =>
        /\ dosing.ret.status = "returned"
        /\ dosing.ret.dose \in AllowedDoseSet
        /\ dosing.ret.interval \in AllowedIntervalSet
        /\ dosing.ret.auc >= 425 * AucScale
        /\ dosing.ret.auc <= 575 * AucScale

\* Such a call returned a predicted AUC more than 10% above the target.
C18_Witness ==
    /\ SuggestReturned
    /\ NormalRenalFunction
    /\ dosing.args.target_auc = 500
    /\ dosing.ret.status = "returned"
    /\ dosing.ret.auc > 550 * AucScale

\* Such a call returned a predicted AUC more than 5% below the target.
C18_WitnessBelow ==
    /\ SuggestReturned
    /\ NormalRenalFunction
    /\ dosing.args.target_auc = 500
    /\ dosing.ret.status = "returned"
    /\ dosing.ret.auc < 475 * AucScale

\* C19: a call on a model whose clearance is zero or negative returns a
\* safe default: it raises nothing, returns a result, and the dose and the
\* predicted AUC of the result are not negative.
C19_NonPositiveClearanceSafe ==
    (SuggestReturned /\ Clearance(pk) <= 0) =>
        /\ dosing.ret.status = "returned"
        /\ dosing.ret.dose >= 0
        /\ dosing.ret.auc >= 0

(***************************************************************************)
(* Repeated runs of one object (SpecRepeat).                               *)
(***************************************************************************)
RunKept(j) == j \in 1..Len(runs) /\ runs[j].result # <<>>

\* C20: two run calls of the object with the same doses, window,
\* creatinine function and patient and the same ke_multiplier returned the
\* same time grid, concentrations, AUC24 and ke, whatever calls were made
\* in between and whatever ke the object held when each began.
C20_RunsRepeatable ==
    \A i, j \in 1..Len(runs) :
        (/\ RunKept(i)
         /\ RunKept(j)
         /\ runs[i].call = runs[j].call
         /\ runs[i].ke_multiplier = runs[j].ke_multiplier) =>
            /\ runs[i].result.time = runs[j].result.time
            /\ runs[i].result.conc = runs[j].result.conc
            /\ runs[i].result.auc24 = runs[j].result.auc24
            /\ runs[i].result.ke = runs[j].result.ke

\* The first and the third call had the same arguments and multiplier, the
\* call between them another multiplier, and the object held another ke
\* when the third began than when the first did.
C20_Witness ==
    /\ Len(runs) >= 3
    /\ RunKept(1)
    /\ RunKept(3)
    /\ runs[1].call = runs[3].call
    /\ runs[1].ke_multiplier = runs[3].ke_multiplier
    /\ runs[2].ke_multiplier # runs[1].ke_multiplier
    /\ runs[1].ke_before # runs[3].ke_before
    /\ \E k \in 1..Len(runs[1].result.conc) : runs[1].result.conc[k] > 0

(***************************************************************************)
(* build_manual_doses (SpecManual).                                        *)
(***************************************************************************)
ManualReturned == dosing.op = "build_manual_doses" /\ dosing.pc = "returned"

\* C21: build_manual_doses fails on lists of different lengths, and on
\* lists of equal length n returns n pairs, the i-th being (time from
\* sim_start to times[i], amounts[i]).
C21_ManualDosesPaired ==
    ManualReturned =>
        IF Len(dosing.args.dose_list) # Len(dosing.args.time_list)
        THEN dosing.ret.status = "raised"
        ELSE /\ dosing.ret.status = "returned"
             /\ Len(dosing.ret.doses) = Len(dosing.args.dose_list)
             /\ \A i \in 1..Len(dosing.ret.doses) :
                   dosing.ret.doses[i] = <<dosing.args.time_list[i] - dosing.args.sim_start,
                                           dosing.args.dose_list[i]>>

\* What the code does hold to: lists of equal length are paired in order.
C21_EqualLengthsPaired ==
    (ManualReturned /\ Len(dosing.args.dose_list) = Len(dosing.args.time_list)) =>
        /\ dosing.ret.status = "returned"
        /\ Len(dosing.ret.doses) = Len(dosing.args.dose_list)
        /\ \A i \in 1..Len(dosing.ret.doses) :
              dosing.ret.doses[i] = <<dosing.args.time_list[i] - dosing.args.sim_start,
                                      dosing.args.dose_list[i]>>

(***************************************************************************)
(* The fit's forward simulation against run (SpecFit).                     *)
(***************************************************************************)
CandidateAtHand == MultGrid(Len(fcall.log_post) + 1)

\* C22: the curve fit_ke_from_levels evaluates for a candidate multiplier m
\* equals at every grid point the curve run returns for the same doses,
\* creatinine function and patient with ke_multiplier = m.
C22_FastCurveIsRunCurve ==
    (IsFit /\ fcall.pc = "loop" /\ Len(fcall.log_post) < MultGridSize) =>
        run_fast(pk, call.doses, fcall.base_ke_traj, CandidateAtHand)
            = RunCurve([pk EXCEPT !.ke_multiplier = CandidateAtHand], call)

\* The two curves do agree while the multiplied rate is inside [0.005, 0.17].
C22_FastCurveIsRunCurveInsideBand ==
    (/\ IsFit
     /\ fcall.pc = "loop"
     /\ Len(fcall.log_post) < MultGridSize
     /\ \A k \in 1..Len(fcall.base_ke_traj) :
           /\ FMul(fcall.base_ke_traj[k], CandidateAtHand, MultScale) >= KeMin
           /\ FMul(fcall.base_ke_traj[k], CandidateAtHand, MultScale) <= KeMax) =>
        run_fast(pk, call.doses, fcall.base_ke_traj, CandidateAtHand)
            = RunCurve([pk EXCEPT !.ke_multiplier = CandidateAtHand], call)

(***************************************************************************)
(* The stored multiplier_sd (SpecFit).                                     *)
(***************************************************************************)
\* The discrete second derivative of the log-posterior at the returned index.
CurvatureAtFit ==
    CHOOSE d \in { SecondGradient(fcall.log_post)[idx] :
                      idx \in {ArgMax(fcall.log_post)} } : TRUE

\* C23: a fit with a zero or positive second derivative at the selected
\* index returns and stores multiplier_sd = 0.2 * (fitted multiplier); with
\* a negative one it stores sqrt(-1 / second derivative).
C23_SdFromCurvature ==
    FitReturned =>
        \E d2 \in {CurvatureAtFit} :
            IF d2 >= 0
            THEN pk.multiplier_sd = pk.ke_multiplier \div 5
            ELSE pk.multiplier_sd = (MultScale * 1000) \div Isqrt(0 - d2)

\* What the code stores: 0.2 itself when the second derivative is not
\* negative.
C23_SdFallbackConstant ==
    FitReturned =>
        \E d2 \in {CurvatureAtFit} :
            IF d2 >= 0
            THEN pk.multiplier_sd = MultScale \div 5
            ELSE pk.multiplier_sd = (MultScale * 1000) \div Isqrt(0 - d2)

\* A fit returned with a second derivative that is not negative.
C23_WitnessDegenerate == FitReturned /\ CurvatureAtFit >= 0

(***************************************************************************)
(* auc24 (SpecDay).                                                        *)
(***************************************************************************)
RunDone == run.pc = "done"

\* conc at grid index k (0-based) plus the sum of conc at the indices of S
\* above k.
RECURSIVE SumAbove(_, _, _)
SumAbove(conc, S, k) ==
    IF k \notin S THEN 0
    ELSE IF k + 1 \notin S THEN conc[k + 1]
    ELSE CHOOSE t \in { conc[k + 1] + conc[k + 2] + rest :
                          rest \in {SumAbove(conc, S, k + 2)} } : TRUE

\* The sum of conc over the grid indices lo..hi (0-based), in blocks of 24.
RECURSIVE SumAt(_, _, _)
SumAt(conc, lo, hi) ==
    IF lo > hi THEN 0
    ELSE IF hi - lo < 24 THEN SumAbove(conc, lo..hi, lo)
    ELSE SumAbove(conc, lo..(lo + 23), lo) + SumAt(conc, lo + 24, hi)

\* The first grid index of the trailing 24-hour window: the last 288 points.
TrailingDayFrom == call.n_grid - DaySteps + 1

\* C24: the auc24 run returns is dt times the sum of the concentrations at
\* the 288 grid points of the trailing 24-hour window when the run lasts at
\* least 24 h, and dt times the sum over all grid points when it is shorter.
C24_Auc24TrailingWindow ==
    RunDone =>
        IF GridTime(call.n_grid) >= 24 * MinPerHour
        THEN /\ Cardinality(TrailingDayFrom..call.n_grid) = DaySteps
             /\ run.result.auc24
                  = SumAt(run.result.conc, TrailingDayFrom, call.n_grid) \div StepsPerHour
        ELSE run.result.auc24 = SumAt(run.result.conc, 0, call.n_grid) \div StepsPerHour

\* A run of 24 h or more returned, with a concentration above zero at the
\* grid point the window leaves out.
C24_Witness ==
    /\ RunDone
    /\ GridTime(call.n_grid) >= 24 * MinPerHour
    /\ run.result.conc[1] > 0
    /\ run.result.auc24 > 0

\* A run shorter than 24 h returned.
C24_WitnessShort ==
    /\ RunDone
    /\ GridTime(call.n_grid) < 24 * MinPerHour
    /\ run.result.auc24 > 0

(***************************************************************************)
(* The drug a run introduces (Spec).                                       *)
(***************************************************************************)
\* The grid steps of the finished run at which an infusion input was applied.
InfusedSteps ==
    {k \in 0..call.n_grid : RateIn(call.doses, GridTime(k), VdSafe(pk.vd)) > 0}

\* The run was of one dose that starts on the grid and whose infusion ends
\* inside the window.
SingleDoseOnGrid ==
    /\ RunDone
    /\ Len(call.doses) = 1
    /\ \E k \in 0..call.n_grid : GridTime(k) = call.doses[1][1]
    /\ (GridTime(call.n_grid) - call.doses[1][1]) * INFUSION_RATE
           > call.doses[1][2] * MinPerHour

\* C25: for a single dose of amount A starting on the grid, the number of
\* steps with infusion input times dt is the infusion duration A / 1000 h,
\* so that the drug introduced is A.
C25_MassBalance ==
    SingleDoseOnGrid =>
        Cardinality(InfusedSteps) * GridTime(1) * INFUSION_RATE
            = call.doses[1][2] * MinPerHour

\* What the code does: the window is closed at both ends, one step more.
C25_OneExtraStep ==
    (SingleDoseOnGrid /\ (call.doses[1][2] * MinPerHour) % (GridTime(1) * INFUSION_RATE) = 0) =>
        (Cardinality(InfusedSteps) - 1) * GridTime(1) * INFUSION_RATE
            = call.doses[1][2] * MinPerHour

(***************************************************************************)
(* The ke a run leaves in the object (Spec).                               *)
(***************************************************************************)
\* What the floor of the division of line 152 can lose of ke * ke_multiplier,
\* in 1/KeScale.
StoredKeResolution == pk.ke_multiplier \div MultScale + 1

\* returned ke * Vd, as suggest_regimen scales a clearance.
ReturnedClearance == MulDiv(run.result.ke, pk.vd, (KeScale \div ClhScale) * VdScale)

KeProductIsReturnedKe ==
    (RunDone /\ pk.ke_multiplier >= MultFloor) =>
        /\ Abs(FMul(pk.ke, pk.ke_multiplier, MultScale) - run.result.ke)
              <= StoredKeResolution
        /\ Abs(Clearance(pk) - ReturnedClearance)
              <= MulDiv(StoredKeResolution, pk.vd, (KeScale \div ClhScale) * VdScale) + 1

RunKeepsOtherFields ==
    run'.pc # "idle" =>
        /\ pk'.ke_multiplier = pk.ke_multiplier
        /\ pk'.multiplier_sd = pk.multiplier_sd
        /\ pk'.vd = pk.vd

\* C26: after a run made with ke_multiplier >= 0.01 the object's
\* ke * ke_multiplier is the ke the run returned, so ke * ke_multiplier * vd
\* is returned ke * Vd; and no step of run changes ke_multiplier,
\* multiplier_sd or vd.
C26_KeTimesMultiplierIsReturnedKe == [](KeProductIsReturnedKe) /\ [][RunKeepsOtherFields]_vars

\* A run under a multiplier of 0.3 returned a rate the clamp raised to the
\* floor 0.005, and left a ke other than the population ke in the object.
C26_Witness ==
    /\ RunDone
    /\ pk.ke_multiplier = MultGridLo
    /\ run.result.ke = KeMin
    /\ pk.ke # run.pop_ke_traj[Len(run.pop_ke_traj)]

\* A run under a multiplier of 3.0 returned a rate inside the band.
C26_WitnessInside ==
    /\ RunDone
    /\ pk.ke_multiplier = 3 * MultScale
    /\ run.result.ke > KeMin
    /\ run.result.ke < KeMax

(***************************************************************************)
(* The order of the dose list (Spec).                                      *)
(***************************************************************************)
\* The lists that hold the entries of seq in another or the same order.
Reorderings(seq) ==
    { [k \in 1..Len(seq) |-> seq[f[k]]] :
        f \in {g \in [1..Len(seq) -> 1..Len(seq)] :
                  \A i, j \in 1..Len(seq) : g[i] = g[j] => i = j} }

\* What run returns for the arguments of the call with the dose list ds.
ResultFor(ds) ==
    CHOOSE res \in { RunResult(pk, last) :
                        last \in { RunLoop(pk, c, RunEnter(c)) :
                                     c \in {[call EXCEPT !.doses = ds]} } } : TRUE

\* C27: the concentrations, AUC24 and ke run returned are those it returns
\* for every reordering of the dose list.
C27_DoseOrderIrrelevant ==
    RunDone =>
        \A ds \in Reorderings(call.doses) :
            \E res \in {ResultFor(ds)} :
                /\ res.conc = run.result.conc
                /\ res.auc24 = run.result.auc24
                /\ res.ke = run.result.ke

\* A run returned for two doses given later-first, the infusion windows
\* overlapping, with drug in the curve.
C27_Witness ==
    /\ RunDone
    /\ Len(call.doses) = 2
    /\ call.doses[1][1] > call.doses[2][1]
    /\ \E k \in 0..call.n_grid :
          DoseActive(call.doses[1], GridTime(k)) /\ DoseActive(call.doses[2], GridTime(k))
    /\ \E k \in 1..Len(run.result.conc) : run.result.conc[k] > 0
====
